---------------------------- MODULE Spec2Model ----------------------------
(***************************************************************************)
(* A model of src/js/service-worker.js: the `firestore` value codec        *)
(* (parseField / createField / parseMap), the three document accessors     *)
(* (getDocument / getDocuments / getDocumentsForIds and the static methods *)
(* of class Document that wrap them) and class QueryBuilder.               *)
(*                                                                         *)
(* JavaScript values are modelled as tagged records.  A number is kept in  *)
(* tenths (Num(15) is 1.5) so that the integer / non-integer distinction   *)
(* of Number.isInteger exists; a string is a sequence of one-character     *)
(* strings so that toString / parseInt / parseFloat / split are real       *)
(* conversions; an object is a function from its own enumerable keys to    *)
(* values.  A thrown TypeError is the value TypeError, propagated by every *)
(* operator the way the exception unwinds the calls.                       *)
(***************************************************************************)
EXTENDS Integers, Sequences, FiniteSets, TLC

VARIABLES
    cpc,        \* codec run: position ("encode", "decode", "done"; "idle" outside codec runs)
    value,      \* codec run: the native value handed to createField
    wire,       \* codec run: the wire value (createField's result or a received one)
    result,     \* codec run: parseField's result
    heap,       \* object store: reference -> query descriptor object
    builder,    \* the QueryBuilder instance: [query |-> reference]
    built,      \* the references build() has returned so far, in call order
    log,        \* the QueryBuilder calls made so far, in call order
    calls       \* accessor calls: each call's kind, class, argument, position, request, response, result

codecVars == <<cpc, value, wire, result>>
builderVars == <<heap, builder, built, log>>
accessorVars == <<calls>>
vars == <<cpc, value, wire, result, heap, builder, built, log, calls>>

(***************************************************************************)
(* Bounds of the model.                                                    *)
(***************************************************************************)
MaxLen == 2          \* longest list, and most keys of a map, among the codec inputs
MaxCalls == 4        \* QueryBuilder calls in one run
NCalls == 2          \* concurrently started accessor calls

(***************************************************************************)
(* JavaScript values.                                                      *)
(***************************************************************************)
Null == [t |-> "null"]
Undefined == [t |-> "undefined"]
Fn == [t |-> "function"]
TypeError == [t |-> "TypeError"]
NotYet == [t |-> "notyet"]
Bool(b) == [t |-> "boolean", v |-> b]
Num(n) == [t |-> "number", k |-> "finite", v |-> n]
NaN == [t |-> "number", k |-> "NaN", v |-> 0]
Str(s) == [t |-> "string", v |-> s]
Arr(s) == [t |-> "array", v |-> s]
Obj(f) == [t |-> "object", v |-> f]
NoKeys == [key \in {} |-> Null]

\* !!x
Truthy(x) ==
    CASE x.t \in {"null", "undefined"} -> FALSE
      [] x.t = "boolean" -> x.v
      [] x.t = "number" -> x.k = "finite" /\ x.v # 0
      [] x.t = "string" -> x.v # <<>>
      [] OTHER -> TRUE

\* o.key, for an o that is neither null nor undefined
Get(o, key) ==
    IF o.t = "object" /\ key \in DOMAIN o.v THEN o.v[key] ELSE Undefined

\* o1?.key
OptGet(o, key) ==
    IF o.t \in {"null", "undefined"} THEN Undefined ELSE Get(o, key)

(***************************************************************************)
(* Number <-> string: Number.prototype.toString, parseInt, parseFloat.     *)
(***************************************************************************)
DigitChars == <<"0", "1", "2", "3", "4", "5", "6", "7", "8", "9">>
IsDigit(c) == \E d \in 1..10 : DigitChars[d] = c
DigitOf(c) == (CHOOSE d \in 1..10 : DigitChars[d] = c) - 1

RECURSIVE NatToString(_)
NatToString(n) ==
    IF n < 10 THEN <<DigitChars[n + 1]>>
    ELSE NatToString(n \div 10) \o <<DigitChars[(n % 10) + 1]>>

Abs(n) == IF n < 0 THEN 0 - n ELSE n

\* value.toString() of a finite number held in tenths
NumberToString(n) ==
    (IF n < 0 THEN <<"-">> ELSE <<>>)
    \o NatToString(Abs(n) \div 10)
    \o (IF Abs(n) % 10 = 0 THEN <<>> ELSE <<".", DigitChars[(Abs(n) % 10) + 1]>>)

\* the longest prefix of s made of digits
RECURSIVE DigitPrefix(_)
DigitPrefix(s) ==
    IF s # <<>> /\ IsDigit(Head(s)) THEN <<Head(s)>> \o DigitPrefix(Tail(s)) ELSE <<>>

RECURSIVE DigitsToNat(_, _)
DigitsToNat(s, acc) ==
    IF s = <<>> THEN acc ELSE DigitsToNat(Tail(s), acc * 10 + DigitOf(Head(s)))

Drop(s, n) == SubSeq(s, n + 1, Len(s))

\* String(x) for the payloads a numeric variant carries
ToStr(x) ==
    CASE x.t = "string" -> x.v
      [] x.t = "number" /\ x.k = "finite" -> NumberToString(x.v)
      [] OTHER -> <<"N", "a", "N">>

\* parseInt(x): optional sign, then digits up to the first non-digit
parseInt(x) ==
    LET s == ToStr(x)
        neg == s # <<>> /\ Head(s) = "-"
        body == IF neg THEN Tail(s) ELSE s
        digits == DigitPrefix(body)
    IN  IF digits = <<>> THEN NaN
        ELSE Num((IF neg THEN -10 ELSE 10) * DigitsToNat(digits, 0))

\* parseFloat(x): optional sign, digits, optional "." and fraction digits
\* (the first fraction digit is kept: numbers are held in tenths)
parseFloat(x) ==
    LET s == ToStr(x)
        neg == s # <<>> /\ Head(s) = "-"
        body == IF neg THEN Tail(s) ELSE s
        digits == DigitPrefix(body)
        rest == Drop(body, Len(digits))
        frac == IF rest # <<>> /\ Head(rest) = "." THEN DigitPrefix(Tail(rest)) ELSE <<>>
        tenths == DigitsToNat(digits, 0) * 10 + (IF frac = <<>> THEN 0 ELSE DigitOf(Head(frac)))
    IN  IF digits = <<>> /\ frac = <<>> THEN NaN
        ELSE Num(IF neg THEN 0 - tenths ELSE tenths)

(***************************************************************************)
(* The codec.                                                              *)
(***************************************************************************)
\* array.map(f) where f may throw: the first exception unwinds the map
MapResult(s) == IF \E i \in 1..Len(s) : s[i] = TypeError THEN TypeError ELSE Arr(s)

RECURSIVE parseField(_), parseMap(_)
parseField(field) ==
    IF field.t \in {"null", "undefined"} THEN TypeError
    ELSE IF Truthy(Get(field, "integerValue")) THEN parseInt(Get(field, "integerValue"))
    ELSE IF Truthy(Get(field, "doubleValue")) THEN parseFloat(Get(field, "doubleValue"))
    ELSE IF Truthy(Get(field, "booleanValue")) THEN Get(field, "booleanValue")
    ELSE IF Truthy(Get(field, "stringValue")) THEN Get(field, "stringValue")
    ELSE IF Truthy(Get(field, "mapValue")) THEN parseMap(Get(field, "mapValue"))
    ELSE IF Truthy(OptGet(Get(field, "arrayValue"), "values"))
         THEN LET values == OptGet(Get(field, "arrayValue"), "values")
              IN  IF values.t # "array" THEN TypeError
                  ELSE MapResult([i \in 1..Len(values.v) |-> parseField(values.v[i])])
    ELSE Null

\* for (const key in map.fields) iterates the own keys of an object and
\* nothing at all when map.fields is undefined, null or another primitive
\* (no input of the model holds an array or a string as `fields`)
parseMap(map) ==
    IF map.t \in {"null", "undefined"} THEN TypeError
    ELSE LET fields == Get(map, "fields")
             keys == IF fields.t = "object" THEN DOMAIN fields.v ELSE {}
             parsed == [key \in keys |-> parseField(fields.v[key])]
         IN  IF \E key \in keys : parsed[key] = TypeError THEN TypeError
             ELSE Obj(parsed)

RECURSIVE createField(_)
createField(x) ==
    IF x.t = "number" /\ x.k = "finite" /\ x.v % 10 = 0
        THEN Obj([integerValue |-> Str(NumberToString(x.v))])
    ELSE IF x.t = "number" THEN Obj([doubleValue |-> Str(ToStr(x))])
    ELSE IF x.t = "boolean" THEN Obj([booleanValue |-> x])
    ELSE IF x.t = "string" THEN Obj([stringValue |-> x])
    ELSE IF x.t = "array"
        THEN Obj([arrayValue |-> Obj([values |-> Arr([i \in 1..Len(x.v) |-> createField(x.v[i])])])])
    ELSE IF x.t \in {"object", "function"}
        THEN LET entries == IF x.t = "object" THEN x.v ELSE NoKeys
             IN  Obj([mapValue |-> Obj([fields |->
                    Obj([key \in DOMAIN entries |-> createField(entries[key])])])])
    ELSE Null


(***************************************************************************)
(* Codec runs.  A run either encodes a native value and decodes the wire   *)
(* value createField returned, or decodes a wire value received from the   *)
(* remote store.                                                           *)
(***************************************************************************)
Leaves ==
    {Null, Undefined, Fn, Bool(TRUE), Bool(FALSE), Num(0), Num(10), Num(-30), Num(15),
     Num(-5), Str(<<>>), Str(<<"a">>), Str(<<"7", "a">>)}
Elems == {Null, Bool(FALSE), Num(20), Str(<<>>), Str(<<"a">>), Fn}
Keys == {"n", "s", "id"}

ListsOf(S) == UNION {[1..n -> S] : n \in 0..MaxLen}
MapsOf(S) == UNION {[K -> S] : K \in {K \in SUBSET Keys : Cardinality(K) <= MaxLen}}

Flat == {Arr(s) : s \in ListsOf(Elems)} \cup {Obj(f) : f \in MapsOf(Elems)}
Inner == {Arr(<<>>), Arr(<<Num(20)>>), Arr(<<Str(<<"a">>), Bool(TRUE)>>), Obj(NoKeys),
          Obj([n |-> Num(20)]), Obj([s |-> Arr(<<Num(15)>>)])}
Nested == {Arr(s) : s \in ListsOf(Inner)} \cup {Obj(f) : f \in MapsOf(Inner)}

NativeInputs == Leaves \cup Flat \cup Nested

\* Wire values as the remote store sends them: one variant key each, an
\* empty object, and the explicit null tag.
IntegerWire(s) == Obj([integerValue |-> Str(s)])
StringWire(s) == Obj([stringValue |-> Str(s)])
ScalarWires ==
    {IntegerWire(<<"0">>), IntegerWire(<<"3">>), IntegerWire(<<"-", "1", "2">>),
     Obj([doubleValue |-> Str(<<"1", ".", "5">>)]), Obj([doubleValue |-> Num(15)]),
     Obj([doubleValue |-> Num(-5)]),
     Obj([booleanValue |-> Bool(TRUE)]), Obj([booleanValue |-> Bool(FALSE)]),
     StringWire(<<>>), StringWire(<<"x">>),
     Obj([nullValue |-> Null]), Obj(NoKeys)}
ArrayWire(s) == Obj([arrayValue |-> Obj([values |-> Arr(s)])])
MapWire(f) == Obj([mapValue |-> Obj([fields |-> Obj(f)])])
WireInputs ==
    ScalarWires
    \cup {Obj([arrayValue |-> Obj(NoKeys)]), Obj([mapValue |-> Obj(NoKeys)])}
    \cup {ArrayWire(s) : s \in ListsOf(ScalarWires)}
    \cup {MapWire(f) : f \in UNION {[K -> ScalarWires] : K \in {{}, {"n"}, {"n", "s"}}}}
    \cup {ArrayWire(<<MapWire([n |-> IntegerWire(<<"3">>)]), ArrayWire(<<>>)>>),
          MapWire([s |-> ArrayWire(<<StringWire(<<"x">>)>>)])}

CodecInit ==
    /\ result = NotYet
    /\ \/ cpc = "encode" /\ value \in NativeInputs /\ wire = NotYet
       \/ cpc = "decode" /\ value = NotYet /\ wire \in WireInputs
    /\ heap = <<>> /\ builder = NotYet /\ built = <<>> /\ log = <<>>
    /\ calls = <<>>

\* wire = firestore.createField(value)
Encode ==
    /\ cpc = "encode"
    /\ wire' = createField(value)
    /\ cpc' = "decode"
    /\ UNCHANGED <<value, result, builderVars, accessorVars>>

\* result = firestore.parseField(wire)
Decode ==
    /\ cpc = "decode"
    /\ result' = parseField(wire)
    /\ cpc' = "done"
    /\ UNCHANGED <<value, wire, builderVars, accessorVars>>

CodecNext == Encode \/ Decode

SpecCodec == CodecInit /\ [][CodecNext]_vars

(***************************************************************************)
(* class QueryBuilder.  The builder holds a reference to one descriptor    *)
(* object on the heap; build() hands that reference out.                   *)
(***************************************************************************)
\* a short identifier or keyword as a JavaScript string
S(word) == Str(<<word>>)

\* o[key] = x on a copy of object o
SetKey(o, key, x) ==
    Obj([name \in DOMAIN o.v \cup {key} |-> IF name = key THEN x ELSE o.v[name]])

\* { fieldFilter: { field: { fieldPath: field }, op, value: firestore.createField(value) } }
FieldFilter(field, op, x) ==
    Obj([fieldFilter |->
        Obj([field |-> Obj([fieldPath |-> field]), op |-> op, value |-> createField(x)])])

\* a where() that wraps the existing filter in a new composite on every
\* call after the first
ComposeNested(q, fieldFilter) ==
    IF ~Truthy(Get(q, "where")) THEN SetKey(q, "where", fieldFilter)
    ELSE SetKey(q, "where",
            Obj([compositeFilter |->
                Obj([op |-> S("AND"), filters |-> Arr(<<Get(q, "where"), fieldFilter>>)])]))

\* the three branches of where() on descriptor q
Compose(q, fieldFilter) ==
    IF ~Truthy(Get(q, "where")) THEN SetKey(q, "where", fieldFilter)
    ELSE IF Truthy(Get(Get(q, "where"), "fieldFilter"))
        THEN SetKey(q, "where",
                Obj([compositeFilter |->
                    Obj([op |-> S("AND"), filters |-> Arr(<<Get(q, "where"), fieldFilter>>)])]))
    ELSE LET composite == Get(Get(q, "where"), "compositeFilter")
             pushed == SetKey(composite, "filters",
                           Arr(Append(Get(composite, "filters").v, fieldFilter)))
         IN  SetKey(q, "where", SetKey(Get(q, "where"), "compositeFilter", pushed))

\* a limit() that keeps a limit already set
LimitKeepsFirst(q, n) ==
    IF "limit" \in DOMAIN q.v THEN q ELSE SetKey(q, "limit", n)

\* this.query.limit = limit
SetLimit(q, n) == SetKey(q, "limit", n)

\* if (!this.query.orderBy) this.query.orderBy = []; this.query.orderBy.push(...)
PushOrderBy(q, field, direction) ==
    LET list == IF ~Truthy(Get(q, "orderBy")) THEN <<>> ELSE Get(q, "orderBy").v
    IN  SetKey(q, "orderBy",
            Arr(Append(list, Obj([field |-> Obj([fieldPath |-> field]), direction |-> direction]))))

Logged(name, args) == Append(log, [op |-> name, args |-> args])

\* new QueryBuilder()
New == Obj(NoKeys)

where(field, op, x) ==
    /\ Len(log) < MaxCalls
    /\ heap' = [heap EXCEPT ![builder.query] = Compose(heap[builder.query], FieldFilter(field, op, x))]
    /\ log' = Logged("where", <<field, op, x>>)
    /\ UNCHANGED <<builder, built, codecVars, accessorVars>>

orderBy(field, direction) ==
    /\ Len(log) < MaxCalls
    /\ heap' = [heap EXCEPT ![builder.query] = PushOrderBy(heap[builder.query], field, direction)]
    /\ log' = Logged("orderBy", <<field, direction>>)
    /\ UNCHANGED <<builder, built, codecVars, accessorVars>>

limit(n) ==
    /\ Len(log) < MaxCalls
    /\ heap' = [heap EXCEPT ![builder.query] = SetLimit(heap[builder.query], n)]
    /\ log' = Logged("limit", <<n>>)
    /\ UNCHANGED <<builder, built, codecVars, accessorVars>>

setOffset(offset) ==
    /\ Len(log) < MaxCalls
    /\ heap' = [heap EXCEPT ![builder.query] = SetKey(heap[builder.query], "offset", offset)]
    /\ log' = Logged("setOffset", <<offset>>)
    /\ UNCHANGED <<builder, built, codecVars, accessorVars>>

\* a build() that returns a copy of the descriptor
buildSnapshot ==
    /\ Len(log) < MaxCalls
    /\ heap' = Append(heap, heap[builder.query])
    /\ built' = Append(built, Len(heap) + 1)
    /\ log' = Logged("build", <<>>)
    /\ UNCHANGED <<builder, codecVars, accessorVars>>

\* return this.query
build ==
    /\ Len(log) < MaxCalls
    /\ built' = Append(built, builder.query)
    /\ log' = Logged("build", <<>>)
    /\ UNCHANGED <<heap, builder, codecVars, accessorVars>>

WhereArgs ==
    {<<S("a"), S("EQUAL"), Num(10)>>, <<S("b"), S("LESS_THAN"), S("x")>>,
     <<S("c"), S("IN"), Arr(<<Num(15), Null>>)>>}
OrderByArgs == {<<S("x"), S("ASCENDING")>>, <<S("y"), S("DESCENDING")>>}
LimitArgs == {Num(100), Num(0)}
OffsetArgs == {Num(50), Num(0)}

BuilderInit ==
    /\ heap = <<New>> /\ builder = [query |-> 1] /\ built = <<>> /\ log = <<>>
    /\ cpc = "idle" /\ value = NotYet /\ wire = NotYet /\ result = NotYet
    /\ calls = <<>>

BuilderNext ==
    \/ \E args \in WhereArgs : where(args[1], args[2], args[3])
    \/ \E args \in OrderByArgs : orderBy(args[1], args[2])
    \/ \E n \in LimitArgs : limit(n)
    \/ \E offset \in OffsetArgs : setOffset(offset)
    \/ build

SpecBuilder == BuilderInit /\ [][BuilderNext]_vars

(***************************************************************************)
(* The remote store and the transport.  A request in flight is a record    *)
(* [method, url, body]; the store answers it from Remote, the documents it *)
(* holds, which no operation of this program writes.                       *)
(***************************************************************************)
dbServer == "https://firestore.googleapis.com/v1/"
projectPrefix == "projects/vocab-u-study/databases/(default)/documents"
\* get baseUrl()
baseUrl == <<dbServer, projectPrefix>>

Classes == {"MetaSet", "CustomCollection", "VocabSet"}
\* static collectionKey
collectionKey(class) ==
    CASE class = "MetaSet" -> "meta_sets"
      [] class = "CustomCollection" -> "collections"
      [] class = "VocabSet" -> "sets"
\* the fields each subclass constructor copies from its data
Schema(class) ==
    CASE class = "MetaSet" ->
             {"name", "nameWords", "creator", "uid", "public", "numTerms", "collections", "likes"}
      [] class = "CustomCollection" -> {"name", "sets", "uid"}
      [] class = "VocabSet" -> {"name", "description", "uid", "public", "terms"}

\* `${this.projectPrefix}/${collection.collectionKey}/${id}`
DocumentPath(key, id) == Str(<<projectPrefix, "/", key, "/", id>>)

StoredDocument(key, id, created, updated, fields) ==
    Obj([name |-> DocumentPath(key, id), fields |-> Obj(fields),
         createTime |-> S(created), updateTime |-> S(updated)])

T1 == "1970-01-01T00:00:01Z"
T2 == "1970-01-01T00:00:02Z"
Remote ==
    [key \in {"meta_sets", "collections", "sets"} |->
        CASE key = "meta_sets" -> <<>>
          [] key = "collections" ->
                 <<StoredDocument(key, "d1", T1, T2,
                       [name |-> StringWire(<<"c">>), uid |-> StringWire(<<"u">>),
                        sets |-> ArrayWire(<<StringWire(<<"d1">>)>>)])>>
          [] key = "sets" ->
                 <<StoredDocument(key, "d1", T1, T1,
                       [name |-> StringWire(<<"s">>), public |-> Obj([booleanValue |-> Bool(TRUE)])]),
                   StoredDocument(key, "d2", T1, T2,
                       [name |-> StringWire(<<"t">>), id |-> StringWire(<<"legacy">>),
                        public |-> Obj([booleanValue |-> Bool(FALSE)])])>>]

\* JSON.stringify followed by the store's JSON.parse: keys holding undefined
\* or a function are dropped, such array elements and NaN become null
RECURSIVE Json(_)
Json(x) ==
    CASE x.t = "array" ->
             Arr([i \in 1..Len(x.v) |->
                     IF x.v[i].t \in {"undefined", "function"} THEN Null ELSE Json(x.v[i])])
      [] x.t = "object" ->
             Obj([key \in {name \in DOMAIN x.v : x.v[name].t \notin {"undefined", "function"}}
                     |-> Json(x.v[key])])
      [] x.t = "number" /\ x.k # "finite" -> Null
      [] OTHER -> x

\* the documents the store finds for a path
Lookup(path) ==
    LET docs == IF Len(path.v) = 5 /\ path.v[3] \in DOMAIN Remote THEN Remote[path.v[3]] ELSE <<>>
    IN  SelectSeq(docs, LAMBDA doc : Get(doc, "name") = path)

FirstN(s, n) == SubSeq(s, 1, IF n < Len(s) THEN n ELSE Len(s))

\* the store's JSON answer to a request
Respond(request) ==
    CASE request.method = "GET" ->
             LET path == Str(Drop(request.url, 1))
             IN  IF Lookup(path) # <<>> THEN Lookup(path)[1]
                 ELSE Obj([error |-> Obj([code |-> Num(4040), status |-> S("NOT_FOUND")])])
      [] request.method = "POST" /\ request.url[3] = ":runQuery" ->
             LET query == Get(request.body, "structuredQuery")
                 from == Get(query, "from")
                 key == Get(from.v[1], "collectionId").v[1]
                 docs == IF key \in DOMAIN Remote THEN Remote[key] ELSE <<>>
                 limited == IF Get(query, "limit").t = "number"
                            THEN FirstN(docs, Get(query, "limit").v \div 10) ELSE docs
             IN  IF limited = <<>> THEN Arr(<<Obj([readTime |-> S(T2)])>>)
                 ELSE Arr([i \in 1..Len(limited) |->
                              Obj([document |-> limited[i], readTime |-> S(T2)])])
      [] request.method = "POST" /\ request.url[3] = ":batchGet" ->
             LET paths == Get(request.body, "documents").v
             IN  Arr([i \in 1..Len(paths) |->
                         IF Lookup(paths[i]) # <<>>
                         THEN Obj([found |-> Lookup(paths[i])[1], readTime |-> S(T2)])
                         ELSE Obj([missing |-> paths[i], readTime |-> S(T2)])])

(***************************************************************************)
(* The accessors: firestore.getDocument / getDocuments / getDocumentsForIds *)
(* and the static methods of Document that call them.                      *)
(***************************************************************************)
\* new Date(Date.parse(x)): milliseconds since the epoch, NaN for anything
\* that is not a timestamp string
Date(x) ==
    [t |-> "date",
     v |-> CASE x = S(T1) -> Num(10000)
             [] x = S(T2) -> Num(20000)
             [] OTHER -> NaN]

\* name.split("/").pop()
RECURSIVE LastSegment(_)
LastSegment(s) ==
    IF \E i \in 1..Len(s) : s[i] = "/"
    THEN LastSegment(Drop(s, CHOOSE i \in 1..Len(s) : s[i] = "/")) ELSE s

\* { id, ...firestore.parseMap(doc), createTime: ..., updateTime: ... }:
\* a later key of the literal replaces an earlier one of the same name
Decoded(id, doc) ==
    IF doc.t \in {"null", "undefined"} THEN TypeError
    ELSE LET parsed == parseMap(doc)
             spread == Obj([key \in {"id"} \cup DOMAIN parsed.v |->
                               IF key \in DOMAIN parsed.v THEN parsed.v[key] ELSE id])
         IN  IF parsed = TypeError THEN TypeError
             ELSE SetKey(SetKey(spread, "createTime", Date(Get(doc, "createTime"))),
                         "updateTime", Date(Get(doc, "updateTime")))

\* doc.name.split("/").pop(), then the literal above
DecodedByName(doc) ==
    IF doc.t \in {"null", "undefined"} \/ Get(doc, "name").t # "string" THEN TypeError
    ELSE Decoded(Str(LastSegment(Get(doc, "name").v)), doc)

\* new this(data): the Document constructor and the subclass constructor
Construct(class, data) ==
    [t |-> "object", class |-> class,
     v |-> [key \in {"id", "createTime", "updateTime"} \cup Schema(class) |-> Get(data, key)]]

\* array.map(doc => new this(doc)) on what firestore returned
ConstructAll(class, decoded) ==
    IF decoded = TypeError THEN TypeError
    ELSE Arr([i \in 1..Len(decoded.v) |-> Construct(class, decoded.v[i])])

\* a getDocuments that keeps a `from` the descriptor already carries
AssignFromIfAbsent(q, class) ==
    IF Truthy(Get(q, "from")) THEN q
    ELSE SetKey(q, "from", Arr(<<Obj([collectionId |-> S(collectionKey(class))])>>))

\* structuredQuery.from = [{ collectionId: collection.collectionKey }]
AssignFrom(q, class) ==
    SetKey(q, "from", Arr(<<Obj([collectionId |-> S(collectionKey(class))])>>))

GetRequest(class, id) ==
    [method |-> "GET", url |-> baseUrl \o <<"/", collectionKey(class), "/", id>>, body |-> Undefined]
RunQueryRequest(q) ==
    [method |-> "POST", url |-> baseUrl \o <<":runQuery">>,
     body |-> Json(Obj([structuredQuery |-> q]))]
BatchGetRequest(class, ids) ==
    [method |-> "POST", url |-> baseUrl \o <<":batchGet">>,
     body |-> Json(Obj([documents |->
                 Arr([i \in 1..Len(ids) |-> DocumentPath(collectionKey(class), ids[i])])]))]

\* what firestore.getDocument / getDocuments / getDocumentsForIds return for
\* the parsed JSON of the response
DecodeResponse(kind, arg, json) ==
    CASE kind = "get" -> Decoded(S(arg), json)
      [] kind = "getDocuments" ->
             MapResult([i \in 1..Len(json.v) |-> DecodedByName(Get(json.v[i], "document"))])
      [] kind = "getDocumentsForIds" ->
             LET found == SelectSeq(json.v, LAMBDA entry : Truthy(Get(entry, "found")))
             IN  MapResult([i \in 1..Len(found) |-> DecodedByName(Get(found[i], "found"))])

Idle == [kind |-> "none", class |-> "none", arg |-> <<>>, pc |-> "idle",
         request |-> NotYet, response |-> NotYet, decoded |-> NotYet, result |-> NotYet]

Started(i, kind, class, arg, request) ==
    /\ calls[i].pc = "idle"
    /\ \A j \in 1..(i - 1) : calls[j].pc # "idle"
    /\ calls' = [calls EXCEPT ![i] = [Idle EXCEPT !.kind = kind, !.class = class, !.arg = arg,
                                                  !.pc = "fetch", !.request = request]]

\* Document.get(id) up to `await fetch(...)` in firestore.getDocument
get(i, class, id) ==
    /\ Started(i, "get", class, id, GetRequest(class, id))
    /\ UNCHANGED <<heap, builder, built, log, codecVars>>

\* Document.getDocuments(structuredQuery) up to `await fetch(...)` in
\* firestore.getDocuments: the assignment to structuredQuery.from and the
\* JSON.stringify of the request body run before the first await
getDocuments(i, class, ref) ==
    /\ Started(i, "getDocuments", class, ref, RunQueryRequest(AssignFrom(heap[ref], class)))
    /\ heap' = [heap EXCEPT ![ref] = AssignFrom(heap[ref], class)]
    /\ UNCHANGED <<builder, built, log, codecVars>>

\* Document.getDocumentsForIds(documentIds) up to `await fetch(...)`
getDocumentsForIds(i, class, ids) ==
    /\ Started(i, "getDocumentsForIds", class, ids, BatchGetRequest(class, ids))
    /\ UNCHANGED <<heap, builder, built, log, codecVars>>

\* `await fetch(...)` resumes with the response; the call goes on to
\* `await res.json()`
fetchResolves(i) ==
    /\ calls[i].pc = "fetch"
    /\ calls' = [calls EXCEPT ![i].pc = "json", ![i].response = Respond(calls[i].request)]
    /\ UNCHANGED <<heap, builder, built, log, codecVars>>

\* `await res.json()` resumes; the firestore function maps the JSON to plain
\* objects and returns (or throws)
jsonResolves(i) ==
    /\ calls[i].pc = "json"
    /\ calls' = [calls EXCEPT ![i].pc = "construct",
                              ![i].decoded = DecodeResponse(calls[i].kind, calls[i].arg, calls[i].response)]
    /\ UNCHANGED <<heap, builder, built, log, codecVars>>

\* the `await firestore....` of the static method resumes: new this(...)
construct(i) ==
    /\ calls[i].pc = "construct"
    /\ calls' = [calls EXCEPT ![i].pc = "done", ![i].decoded = NotYet,
                              ![i].result =
                                  IF calls[i].decoded = TypeError THEN TypeError
                                  ELSE IF calls[i].kind = "get"
                                       THEN Construct(calls[i].class, calls[i].decoded)
                                  ELSE ConstructAll(calls[i].class, calls[i].decoded)]
    /\ UNCHANGED <<heap, builder, built, log, codecVars>>

\* descriptors as QueryBuilder leaves them
Descriptors ==
    <<SetLimit(New, Num(10)),
      Compose(PushOrderBy(New, S("name"), S("ASCENDING")), FieldFilter(S("public"), S("EQUAL"), Bool(TRUE)))>>
\* "d1" is stored in two of the three collections, "dX" in none
Ids == {"d1"}
IdLists == {<<"d1", "dX", "d2">>}

AccessorInit ==
    /\ heap = Descriptors
    /\ calls = [i \in 1..NCalls |-> Idle]
    /\ builder = NotYet /\ built = <<>> /\ log = <<>>
    /\ cpc = "idle" /\ value = NotYet /\ wire = NotYet /\ result = NotYet

AccessorNext ==
    \E i \in 1..NCalls :
        \/ \E class \in Classes, id \in Ids : get(i, class, id)
        \/ \E class \in Classes, ref \in 1..Len(Descriptors) : getDocuments(i, class, ref)
        \/ \E class \in Classes, ids \in IdLists : getDocumentsForIds(i, class, ids)
        \/ fetchResolves(i)
        \/ jsonResolves(i)
        \/ construct(i)

SpecAccessor == AccessorInit /\ [][AccessorNext]_vars

(***************************************************************************)
(* Claims about the codec.                                                 *)
(***************************************************************************)
\* a native value of the supported set: null, booleans, numbers, strings,
\* lists and string-keyed maps of such values
RECURSIVE IsNative(_)
IsNative(x) ==
    CASE x.t \in {"null", "boolean", "number", "string"} -> TRUE
      [] x.t = "array" -> \A i \in 1..Len(x.v) : IsNative(x.v[i])
      [] x.t = "object" -> \A key \in DOMAIN x.v : IsNative(x.v[key])
      [] OTHER -> FALSE

\* the elements an Array payload holds, and the keys a Map payload holds
ElementsOf(payload) ==
    IF OptGet(payload, "values").t = "array" THEN OptGet(payload, "values").v ELSE <<>>
FieldKeysOf(payload) ==
    IF OptGet(payload, "fields").t = "object" THEN DOMAIN OptGet(payload, "fields").v ELSE {}

Encoded == cpc \in {"decode", "done"} /\ value # NotYet
RoundTripped == cpc = "done" /\ value # NotYet
Received == cpc = "done" /\ value = NotYet

\* C2: round trip.  For every supported native value v (null, true, false,
\* integers including 0, floats, strings including "", lists including [],
\* string-keyed maps, nested combinations), parseField(createField(v)) = v.
C2_RoundTrip ==
    (RoundTripped /\ IsNative(value)) => result = value

\* C3: createField of a value outside the supported set (a function,
\* undefined) returns a wire value carrying the Null variant tag: an object
\* whose one key is nullValue, not another variant and not an untagged value.
C3_UnsupportedEncodesToNullTag ==
    (Encoded /\ value \in {Undefined, Fn}) =>
        (wire.t = "object" /\ DOMAIN wire.v = {"nullValue"})

\* C4: for a wire value with exactly one variant populated, whatever the
\* payload, parseField returns the native value of that variant: the number
\* for Integer and Double, the boolean for Boolean, the string for String,
\* the decoded map for Map, the list of decoded elements for Array (the empty
\* list when the Array variant has no elements); parseField returns null only
\* for an empty or untagged wire value.
C4_DecodesThePopulatedVariant ==
    (Received /\ wire.t = "object" /\ Cardinality(DOMAIN wire.v) = 1) =>
        LET tag == CHOOSE key \in DOMAIN wire.v : TRUE
            payload == wire.v[tag]
        IN  /\ tag = "booleanValue" => result = payload
            /\ tag = "stringValue" => result = payload
            /\ tag \in {"integerValue", "doubleValue"} =>
                   /\ result.t = "number" /\ result.k = "finite"
                   /\ payload.t = "number" => result = payload
                   /\ payload.t = "string" => NumberToString(result.v) = payload.v
            /\ tag = "arrayValue" =>
                   /\ result.t = "array"
                   /\ Len(result.v) = Len(ElementsOf(payload))
            /\ tag = "mapValue" =>
                   /\ result.t = "object"
                   /\ DOMAIN result.v = FieldKeysOf(payload)
            /\ result = Null => tag = "nullValue"

\* C5: the codec never raises: createField, parseField and parseMap return a
\* value for every input, including every output of createField fed back
\* into parseField.
C5_CodecNeverRaises ==
    /\ wire # TypeError
    /\ result # TypeError

(***************************************************************************)
(* Claims about QueryBuilder.                                              *)
(***************************************************************************)
CallsOf(name) == SelectSeq(log, LAMBDA call : call.op = name)
Descriptor == heap[builder.query]
Last(s) == s[Len(s)]

\* C1: after any sequence of calls containing k where() calls, the filter is
\* absent when k = 0, is the single leaf comparison when k = 1, and for
\* k >= 2 is one AND-composite whose conjuncts are exactly the k leaves in
\* call order, none of them itself a composite.
C1_FilterIsFlatAnd ==
    LET wheres == CallsOf("where")
        leaves == [i \in 1..Len(wheres) |->
                      FieldFilter(wheres[i].args[1], wheres[i].args[2], wheres[i].args[3])]
    IN  /\ Len(wheres) = 0 => "where" \notin DOMAIN Descriptor.v
        /\ Len(wheres) = 1 => Get(Descriptor, "where") = leaves[1]
        /\ Len(wheres) >= 2 =>
               /\ Get(Descriptor, "where") =
                      Obj([compositeFilter |-> Obj([op |-> S("AND"), filters |-> Arr(leaves)])])
               /\ \A i \in 1..Len(leaves) : "compositeFilter" \notin DOMAIN leaves[i].v

C1_Witness ==
    /\ Len(CallsOf("where")) >= 3
    /\ Len(Get(Get(Get(Descriptor, "where"), "compositeFilter"), "filters").v) = 3

\* C6: the ordering list is exactly the (field, direction) arguments of the
\* orderBy calls in call order, the limit is the argument of the most recent
\* limit call and the offset that of the most recent setOffset call, each
\* absent if never called; so no call changes a component other than its own.
C6_OrderLimitOffset ==
    LET orders == CallsOf("orderBy")
        limits == CallsOf("limit")
        offsets == CallsOf("setOffset")
    IN  /\ IF orders = <<>> THEN "orderBy" \notin DOMAIN Descriptor.v
           ELSE Get(Descriptor, "orderBy") =
                    Arr([i \in 1..Len(orders) |->
                            Obj([field |-> Obj([fieldPath |-> orders[i].args[1]]),
                                 direction |-> orders[i].args[2]])])
        /\ IF limits = <<>> THEN "limit" \notin DOMAIN Descriptor.v
           ELSE Get(Descriptor, "limit") = Last(limits).args[1]
        /\ IF offsets = <<>> THEN "offset" \notin DOMAIN Descriptor.v
           ELSE Get(Descriptor, "offset") = Last(offsets).args[1]

C6_Witness ==
    /\ Len(CallsOf("limit")) = 2
    /\ CallsOf("limit")[1].args # CallsOf("limit")[2].args
    /\ Len(CallsOf("orderBy")) = 2

\* C7: build() neither resets nor freezes the builder and returns a live
\* view: a build() step leaves the accumulated descriptor as it was, calls
\* are still accepted after a build(), and every descriptor build() has
\* returned equals the builder's current state after every later call.
C7_BuildReturnsLiveView ==
    /\ [][/\ Len(built') > Len(built) => heap'[builder'.query] = heap[builder.query]
          /\ \A i \in 1..Len(built') : heap'[built'[i]] = heap'[builder'.query]]_vars
    /\ []((built # <<>> /\ Len(log) < MaxCalls) =>
            ENABLED (\E args \in WhereArgs : where(args[1], args[2], args[3])))

C7_Witness ==
    /\ Len(log) >= 3
    /\ \E i \in 1..(Len(log) - 2) :
           log[i].op = "where" /\ log[i + 1].op = "build" /\ log[i + 2].op = "where"
    /\ Len(CallsOf("where")) = 2
    /\ "compositeFilter" \in DOMAIN Get(heap[built[1]], "where").v

(***************************************************************************)
(* Claims about the accessors.                                             *)
(***************************************************************************)
Finished(i, kind) == calls[i].pc = "done" /\ calls[i].kind = kind
EntriesWith(json, key) == SelectSeq(json.v, LAMBDA entry : key \in DOMAIN entry.v)

\* C8: getDocumentsForIds returns exactly one decoded document per `found`
\* entry of the response, in response order, with the id taken from the
\* trailing path segment of the entry's name, and no element for a `missing`
\* entry.
C8_BatchFetchOmitsMissing ==
    \A i \in 1..NCalls :
        Finished(i, "getDocumentsForIds") =>
            LET found == EntriesWith(calls[i].response, "found")
                docs == calls[i].result
            IN  /\ docs.t = "array"
                /\ Len(docs.v) = Len(found)
                /\ \A n \in 1..Len(found) :
                       /\ docs.v[n].t = "object"
                       /\ Get(docs.v[n], "id") =
                              Str(LastSegment(Get(Get(found[n], "found"), "name").v))

\* C9: getDocuments returns exactly the decoded documents of the response
\* entries that have a `document` key, in response order; an entry without
\* one causes neither an error nor an element of the result.
C9_RunQuerySkipsNoMatch ==
    \A i \in 1..NCalls :
        Finished(i, "getDocuments") =>
            LET matches == EntriesWith(calls[i].response, "document")
                docs == calls[i].result
            IN  /\ docs # TypeError
                /\ docs.t = "array"
                /\ Len(docs.v) = Len(matches)
                /\ \A n \in 1..Len(matches) :
                       Get(docs.v[n], "name") =
                           parseField(Get(Get(Get(matches[n], "document"), "fields"), "name"))

\* the request a call sends, and the documents it returns, when it is the
\* only call made on the descriptors as QueryBuilder left them
AloneRequest(call) ==
    CASE call.kind = "get" -> GetRequest(call.class, call.arg)
      [] call.kind = "getDocuments" -> RunQueryRequest(AssignFrom(Descriptors[call.arg], call.class))
      [] call.kind = "getDocumentsForIds" -> BatchGetRequest(call.class, call.arg)
AloneResult(call) ==
    LET decoded == DecodeResponse(call.kind, call.arg, Respond(AloneRequest(call)))
    IN  IF decoded = TypeError THEN TypeError
        ELSE IF call.kind = "get" THEN Construct(call.class, decoded)
        ELSE ConstructAll(call.class, decoded)

\* C10: under every interleaving of concurrently started get / getDocuments /
\* getDocumentsForIds calls, including getDocuments calls of different
\* document kinds handed the same descriptor object, the request each call
\* sends (in particular the collection named in `from`) and the documents it
\* returns are those of the call running alone.
C10_CallsDoNotInterfere ==
    \A i \in 1..NCalls :
        /\ calls[i].pc # "idle" =>
               /\ calls[i].request = AloneRequest(calls[i])
               /\ calls[i].kind = "getDocuments" =>
                      Get(Get(calls[i].request.body, "structuredQuery"), "from") =
                          Arr(<<Obj([collectionId |-> S(collectionKey(calls[i].class))])>>)
        /\ calls[i].pc = "done" => calls[i].result = AloneResult(calls[i])

C10_Witness ==
    /\ calls[1].kind = "getDocuments" /\ calls[2].kind = "getDocuments"
    /\ calls[1].arg = calls[2].arg
    /\ calls[1].class # calls[2].class
    /\ calls[1].pc = "fetch" /\ calls[2].pc = "done"
    /\ calls[2].result # TypeError

=============================================================================
